---- MODULE Spec2Model ----
(***************************************************************************)
(* Indexed max-heap priority queue of src/priorityqueue.py.               *)
(* A queue value is a record [heap, pos]: heap is the Python list _heap   *)
(* (slot i of the source is heap[i+1] here), pos is the dict _pos from    *)
(* task_id to the 0-based slot.                                            *)
(***************************************************************************)
EXTENDS Integers, Sequences, FiniteSets, TLC

\* ---- bounds of the model ----
NumIds == 4
MaxPriority == 1

\* the tasks a caller may hand to the queue: task_id (a Python string, held as
\* its sequence of code points) and the immutable arrival_time that goes with
\* it; the priority is chosen per call
TaskPool == << [task_id |-> <<66>>, arrival_time |-> 0],
               [task_id |-> <<65>>, arrival_time |-> 1],
               [task_id |-> <<65, 66>>, arrival_time |-> 1],
               [task_id |-> <<67>>, arrival_time |-> 0],
               [task_id |-> <<65, 65>>, arrival_time |-> 0],
               [task_id |-> <<66, 65>>, arrival_time |-> 1] >>
Ids == {TaskPool[i].task_id : i \in 1..NumIds}
Priorities == 0..MaxPriority
Task == {[task_id |-> TaskPool[i].task_id, priority |-> p,
          arrival_time |-> TaskPool[i].arrival_time] : i \in 1..NumIds, p \in Priorities}
NoTask == [task_id |-> <<>>, priority |-> 0, arrival_time |-> 0]
NoId == <<>>

\* the exceptions the queue raises, one per raise statement
NoError == "ok"
DuplicateKey == "ValueError: already exists in the queue"
EmptyQueueError == "IndexError: empty priority queue"
NotFound == "KeyError: not found"
InvalidArgument == "ValueError: requires new_priority"

\* str.__lt__ : lexicographic comparison by code point
RECURSIVE StrLess(_, _)
StrLess(s, t) ==
  IF s = <<>> THEN t # <<>>
  ELSE IF t = <<>> THEN FALSE
  ELSE IF Head(s) # Head(t) THEN Head(s) < Head(t)
  ELSE StrLess(Tail(s), Tail(t))

\* dict item assignment and deletion
DictSet(d, k, v) == [x \in (DOMAIN d) \cup {k} |-> IF x = k THEN v ELSE d[x]]
DictDel(d, k) == [x \in (DOMAIN d) \ {k} |-> d[x]]

EmptyQueue == [heap |-> <<>>, pos |-> <<>>]

len(q) == Len(q.heap)
is_empty(q) == Len(q.heap) = 0

\* comparison without the final task_id tie-break
higher_priority_noid(a, b) ==
  IF a.priority # b.priority THEN a.priority > b.priority
  ELSE a.arrival_time < b.arrival_time

\* comparison that breaks an arrival_time tie by the earlier deadline (no
\* deadline last) before it looks at task_id
higher_priority_deadline(a, b) ==
  IF a.priority # b.priority THEN a.priority > b.priority
  ELSE IF a.arrival_time # b.arrival_time THEN a.arrival_time < b.arrival_time
  ELSE IF a.deadline # b.deadline
       THEN a.deadline # <<>> /\ (b.deadline = <<>> \/ a.deadline[1] < b.deadline[1])
  ELSE StrLess(a.task_id, b.task_id)

\* comparison whose last tie-break is task_id <= task_id
higher_priority_le(a, b) ==
  IF a.priority # b.priority THEN a.priority > b.priority
  ELSE IF a.arrival_time # b.arrival_time THEN a.arrival_time < b.arrival_time
  ELSE a.task_id = b.task_id \/ StrLess(a.task_id, b.task_id)

\* comparison that lets the lower priority win
higher_priority_min(a, b) ==
  IF a.priority # b.priority THEN a.priority < b.priority
  ELSE IF a.arrival_time # b.arrival_time THEN a.arrival_time < b.arrival_time
  ELSE StrLess(a.task_id, b.task_id)

higher_priority(a, b) ==
  IF a.priority # b.priority THEN a.priority > b.priority
  ELSE IF a.arrival_time # b.arrival_time THEN a.arrival_time < b.arrival_time
  ELSE StrLess(a.task_id, b.task_id)

\* swap that exchanges the slots but leaves the index untouched
swap_stale(q, i, j) ==
  [heap |-> [q.heap EXCEPT ![i + 1] = q.heap[j + 1], ![j + 1] = q.heap[i + 1]],
   pos |-> q.pos]

swap(q, i, j) ==
  LET h == [q.heap EXCEPT ![i + 1] = q.heap[j + 1], ![j + 1] = q.heap[i + 1]]
      p1 == DictSet(q.pos, h[i + 1].task_id, i)
      p2 == DictSet(p1, h[j + 1].task_id, j)
  IN [heap |-> h, pos |-> p2]

\* sift-up with the parent of slot idx taken as idx // 2
RECURSIVE sift_up_parent(_, _)
sift_up_parent(q, idx) ==
  IF idx > 0
  THEN LET parent == idx \div 2
       IN IF higher_priority(q.heap[idx + 1], q.heap[parent + 1])
          THEN sift_up_parent(swap(q, idx, parent), parent)
          ELSE q
  ELSE q

RECURSIVE sift_up(_, _)
sift_up(q, idx) ==
  IF idx > 0
  THEN LET parent == (idx - 1) \div 2
       IN IF higher_priority(q.heap[idx + 1], q.heap[parent + 1])
          THEN sift_up(swap(q, idx, parent), parent)
          ELSE q
  ELSE q

\* sift-down that only ever looks at the left child
RECURSIVE sift_down_left(_, _)
sift_down_left(q, idx) ==
  LET n == Len(q.heap)
      left == 2 * idx + 1
  IN IF left >= n THEN q
     ELSE IF higher_priority(q.heap[left + 1], q.heap[idx + 1])
          THEN sift_down_left(swap(q, idx, left), left)
          ELSE q

RECURSIVE sift_down(_, _)
sift_down(q, idx) ==
  LET n == Len(q.heap)
      left == 2 * idx + 1
      right == left + 1
  IN IF left >= n THEN q
     ELSE LET best == IF right < n /\ higher_priority(q.heap[right + 1], q.heap[left + 1])
                      THEN right ELSE left
          IN IF higher_priority(q.heap[best + 1], q.heap[idx + 1])
             THEN sift_down(swap(q, idx, best), best)
             ELSE q

\* every operation returns [q, err, ret]: the queue afterwards, the exception
\* raised (NoError if none) and the returned task (NoTask if none)
\* insert that appends before it checks for the duplicate
insert_late(q, task) ==
  LET h == Append(q.heap, task)
      idx == Len(h) - 1
  IN IF task.task_id \in DOMAIN q.pos
     THEN [q |-> [heap |-> h, pos |-> q.pos], err |-> DuplicateKey, ret |-> NoTask]
     ELSE [q |-> sift_up([heap |-> h, pos |-> DictSet(q.pos, task.task_id, idx)], idx),
           err |-> NoError, ret |-> NoTask]

insert(q, task) ==
  IF task.task_id \in DOMAIN q.pos
  THEN [q |-> q, err |-> DuplicateKey, ret |-> NoTask]
  ELSE LET h == Append(q.heap, task)
           idx == Len(h) - 1
           p == DictSet(q.pos, task.task_id, idx)
       IN [q |-> sift_up([heap |-> h, pos |-> p], idx), err |-> NoError, ret |-> NoTask]

\* extract_max that deletes the index entry only when tasks remain
extract_max_leak(q) ==
  IF is_empty(q)
  THEN [q |-> q, err |-> EmptyQueueError, ret |-> NoTask]
  ELSE LET top == q.heap[1]
           last == q.heap[Len(q.heap)]
           popped == SubSeq(q.heap, 1, Len(q.heap) - 1)
       IN IF Len(popped) > 0
          THEN [q |-> sift_down([heap |-> [popped EXCEPT ![1] = last],
                                 pos |-> DictSet(DictDel(q.pos, top.task_id), last.task_id, 0)], 0),
                err |-> NoError, ret |-> top]
          ELSE [q |-> [heap |-> popped, pos |-> q.pos], err |-> NoError, ret |-> top]

\* extract_max that overwrites the root with the last task but never pops
extract_max_nopop(q) ==
  IF is_empty(q)
  THEN [q |-> q, err |-> EmptyQueueError, ret |-> NoTask]
  ELSE LET top == q.heap[1]
           last == q.heap[Len(q.heap)]
           p == DictDel(q.pos, top.task_id)
       IN IF Len(q.heap) > 1
          THEN [q |-> sift_down([heap |-> [q.heap EXCEPT ![1] = last],
                                 pos |-> DictSet(p, last.task_id, 0)], 0),
                err |-> NoError, ret |-> top]
          ELSE [q |-> [heap |-> <<>>, pos |-> p], err |-> NoError, ret |-> top]

extract_max(q) ==
  IF is_empty(q)
  THEN [q |-> q, err |-> EmptyQueueError, ret |-> NoTask]
  ELSE LET top == q.heap[1]
           last == q.heap[Len(q.heap)]
           popped == SubSeq(q.heap, 1, Len(q.heap) - 1)
       IN IF top.task_id \notin DOMAIN q.pos
          THEN [q |-> [heap |-> popped, pos |-> q.pos], err |-> NotFound, ret |-> NoTask]
          ELSE LET p == DictDel(q.pos, top.task_id)
               IN IF Len(popped) > 0
                  THEN [q |-> sift_down([heap |-> [popped EXCEPT ![1] = last],
                                         pos |-> DictSet(p, last.task_id, 0)], 0),
                        err |-> NoError, ret |-> top]
                  ELSE [q |-> [heap |-> popped, pos |-> p], err |-> NoError, ret |-> top]

\* peek_max that returns the last slot instead of the root
peek_max_last(q) ==
  IF is_empty(q)
  THEN [q |-> q, err |-> EmptyQueueError, ret |-> NoTask]
  ELSE [q |-> q, err |-> NoError, ret |-> q.heap[Len(q.heap)]]

peek_max(q) ==
  IF is_empty(q)
  THEN [q |-> q, err |-> EmptyQueueError, ret |-> NoTask]
  ELSE [q |-> q, err |-> NoError, ret |-> q.heap[1]]

\* increase_key that adds new_priority to the current priority
increase_key_add(q, task_id, new_priority) ==
  IF task_id \notin DOMAIN q.pos
  THEN [q |-> q, err |-> NotFound, ret |-> NoTask]
  ELSE LET i == q.pos[task_id]
       IN IF new_priority < q.heap[i + 1].priority
          THEN [q |-> q, err |-> InvalidArgument, ret |-> NoTask]
          ELSE [q |-> sift_up([q EXCEPT !.heap[i + 1].priority = @ + new_priority], i),
                err |-> NoError, ret |-> NoTask]

\* increase_key that also rejects a priority equal to the current one
increase_key_strict(q, task_id, new_priority) ==
  IF task_id \notin DOMAIN q.pos
  THEN [q |-> q, err |-> NotFound, ret |-> NoTask]
  ELSE LET i == q.pos[task_id]
       IN IF new_priority <= q.heap[i + 1].priority
          THEN [q |-> q, err |-> InvalidArgument, ret |-> NoTask]
          ELSE [q |-> sift_up([heap |-> [q.heap EXCEPT ![i + 1].priority = new_priority],
                               pos |-> q.pos], i),
                err |-> NoError, ret |-> NoTask]

increase_key(q, task_id, new_priority) ==
  IF task_id \notin DOMAIN q.pos
  THEN [q |-> q, err |-> NotFound, ret |-> NoTask]
  ELSE LET i == q.pos[task_id]
       IN IF new_priority < q.heap[i + 1].priority
          THEN [q |-> q, err |-> InvalidArgument, ret |-> NoTask]
          ELSE [q |-> sift_up([heap |-> [q.heap EXCEPT ![i + 1].priority = new_priority],
                               pos |-> q.pos], i),
                err |-> NoError, ret |-> NoTask]

decrease_key(q, task_id, new_priority) ==
  IF task_id \notin DOMAIN q.pos
  THEN [q |-> q, err |-> NotFound, ret |-> NoTask]
  ELSE LET i == q.pos[task_id]
       IN IF new_priority > q.heap[i + 1].priority
          THEN [q |-> q, err |-> InvalidArgument, ret |-> NoTask]
          ELSE [q |-> sift_down([heap |-> [q.heap EXCEPT ![i + 1].priority = new_priority],
                                 pos |-> q.pos], i),
                err |-> NoError, ret |-> NoTask]

\* ---- simulate_scheduler ----
\* the bucketing loop: by_time maps an arrival_time to the tasks arriving then,
\* in the order of the input list
bucket_by_time(tasks) ==
  [t \in {tasks[i].arrival_time : i \in 1..Len(tasks)} |->
     SelectSeq(tasks, LAMBDA x : x.arrival_time = t)]

\* for task in by_time.get(t, []): pq.insert(task); an exception ends the loop
RECURSIVE insert_all(_, _)
insert_all(q, tasks) ==
  IF tasks = <<>> THEN [q |-> q, err |-> NoError]
  ELSE LET r == insert(q, Head(tasks))
       IN IF r.err # NoError THEN [q |-> r.q, err |-> r.err]
          ELSE insert_all(r.q, Tail(tasks))

arrivals_at(by_time, t) == IF t \in DOMAIN by_time THEN by_time[t] ELSE <<>>

\* one iteration of the loop over range(max_time + 1), on the locals
\* st = [pq, by_time, t, timeline, err]
\* iteration that inserts the tasks of the next time step
sim_step_early(st) ==
  LET r == insert_all(st.pq, arrivals_at(st.by_time, st.t + 1))
  IN IF r.err # NoError
     THEN [st EXCEPT !.pq = r.q, !.err = r.err]
     ELSE IF ~is_empty(r.q)
          THEN LET e == extract_max(r.q)
               IN [st EXCEPT !.pq = e.q, !.t = st.t + 1,
                             !.timeline = Append(st.timeline, <<st.t, e.ret>>)]
          ELSE [st EXCEPT !.pq = r.q, !.t = st.t + 1]

\* iteration that executes a task before it inserts the arrivals
sim_step_extract_first(st) ==
  LET e == extract_max(st.pq)
      q1 == IF is_empty(st.pq) THEN st.pq ELSE e.q
      tl == IF is_empty(st.pq) THEN st.timeline
            ELSE Append(st.timeline, <<st.t, e.ret>>)
      r == insert_all(q1, arrivals_at(st.by_time, st.t))
  IN IF r.err # NoError
     THEN [st EXCEPT !.pq = r.q, !.err = r.err]
     ELSE [st EXCEPT !.pq = r.q, !.t = st.t + 1, !.timeline = tl]

sim_step(st) ==
  LET r == insert_all(st.pq, arrivals_at(st.by_time, st.t))
  IN IF r.err # NoError
     THEN [st EXCEPT !.pq = r.q, !.err = r.err]
     ELSE IF ~is_empty(r.q)
          THEN LET e == extract_max(r.q)
               IN [st EXCEPT !.pq = e.q, !.t = st.t + 1,
                             !.timeline = Append(st.timeline, <<st.t, e.ret>>)]
          ELSE [st EXCEPT !.pq = r.q, !.t = st.t + 1]

\* ---- heapsort (src/heapsort.py); slot i of a Python list is a[i + 1] here ----
\* _sift_down that stops as soon as the left child is the last slot
RECURSIVE hs_sift_down_short(_, _, _)
hs_sift_down_short(a, root, end) ==
  LET left == 2 * root + 1
      right == left + 1
  IN IF left >= end THEN a
     ELSE LET child == IF right <= end /\ a[right + 1] > a[left + 1] THEN right ELSE left
          IN IF a[child + 1] > a[root + 1]
             THEN hs_sift_down_short([a EXCEPT ![root + 1] = a[child + 1],
                                               ![child + 1] = a[root + 1]], child, end)
             ELSE a

\* _sift_down(a, start, end); root starts at start
RECURSIVE hs_sift_down(_, _, _)
hs_sift_down(a, root, end) ==
  LET left == 2 * root + 1
      right == left + 1
  IN IF left > end THEN a
     ELSE LET child == IF right <= end /\ a[right + 1] > a[left + 1] THEN right ELSE left
          IN IF a[child + 1] > a[root + 1]
             THEN hs_sift_down([a EXCEPT ![root + 1] = a[child + 1],
                                         ![child + 1] = a[root + 1]], child, end)
             ELSE a

\* arr = list(a) makes a new list: arr and a are not the same object
list_is_alias == FALSE

\* a write to arr, seen through a as well if both name one list
hs_store(st, arr) == [st EXCEPT !.arr = arr, !.a = IF st.shared THEN arr ELSE st.a]

\* ---- state ----
VARIABLES
  heap,      \* MaxHeapPriorityQueue._heap
  pos,       \* MaxHeapPriorityQueue._pos
  lastOp,    \* the last call: name, arguments, slot of the key before the
             \* call, exception raised and value returned
  todo,      \* drain run: tasks still to insert
  inserted,  \* drain run: the set of tasks of the run
  out,       \* drain run: the results of the extract_max calls so far
  out1,      \* drain run: the extraction sequence of the first queue
  run,       \* drain run: which queue is being driven (0 outside drain runs)
  sim,       \* simulate_scheduler: its arguments, locals and position
  cmp,       \* _higher_priority: the tasks last compared and the answers
  dl,        \* two runs on tasks that differ only in deadline and payload
  hs         \* heapsort: its argument, locals and position

vars == <<heap, pos, lastOp, todo, inserted, out, out1, run, sim, cmp, dl, hs>>
drainVars == <<todo, inserted, out, out1, run>>
queueVars == <<heap, pos, lastOp>>
otherVars == <<sim, cmp, dl, hs>>

\* values of the variables of the computations that are not running
SimIdle == [pc |-> "idle"]
CmpIdle == [pc |-> "idle"]
DlIdle == [pc |-> "idle"]
HsIdle == [pc |-> "idle"]
Idle == sim = SimIdle /\ cmp = CmpIdle /\ dl = DlIdle /\ hs = HsIdle

Q == [heap |-> heap, pos |-> pos]

Call(op, task, key, newp, r) ==
  /\ heap' = r.q.heap
  /\ pos' = r.q.pos
  /\ lastOp' = [op |-> op, task |-> task, key |-> key, newp |-> newp,
                slot |-> IF key \in DOMAIN pos THEN pos[key] ELSE -1,
                err |-> r.err, ret |-> r.ret]

NoCall == [op |-> "init", task |-> NoTask, key |-> NoId, newp |-> 0, slot |-> -1,
           err |-> NoError, ret |-> NoTask]

Init ==
  /\ heap = <<>>
  /\ pos = <<>>
  /\ lastOp = NoCall
  /\ todo = {}
  /\ inserted = {}
  /\ out = <<>>
  /\ out1 = <<>>
  /\ run = 0
  /\ Idle

Insert ==
  /\ \E task \in Task : Call("insert", task, NoId, 0, insert(Q, task))
  /\ UNCHANGED drainVars
  /\ UNCHANGED otherVars

ExtractMax ==
  /\ Call("extract_max", NoTask, NoId, 0, extract_max(Q))
  /\ UNCHANGED drainVars
  /\ UNCHANGED otherVars

PeekMax ==
  /\ Call("peek_max", NoTask, NoId, 0, peek_max(Q))
  /\ UNCHANGED drainVars
  /\ UNCHANGED otherVars

IncreaseKey ==
  /\ \E id \in Ids, p \in Priorities :
       Call("increase_key", NoTask, id, p, increase_key(Q, id, p))
  /\ UNCHANGED drainVars
  /\ UNCHANGED otherVars

DecreaseKey ==
  /\ \E id \in Ids, p \in Priorities :
       Call("decrease_key", NoTask, id, p, decrease_key(Q, id, p))
  /\ UNCHANGED drainVars
  /\ UNCHANGED otherVars

Next == Insert \/ ExtractMax \/ PeekMax \/ IncreaseKey \/ DecreaseKey

Spec == Init /\ [][Next]_vars

\* ---- the caller's references: insert stores the Task object it is given and
\* ---- peek_max returns the stored object, and Task is a mutable dataclass, so
\* ---- the caller can assign the priority of a resident task
CallerWrite ==
  /\ \E i \in 1..Len(heap), p \in Priorities :
       /\ heap' = [heap EXCEPT ![i].priority = p]
       /\ lastOp' = [op |-> "caller_write", task |-> NoTask, key |-> heap[i].task_id,
                     newp |-> p, slot |-> i - 1, err |-> NoError, ret |-> NoTask]
  /\ UNCHANGED pos
  /\ UNCHANGED drainVars
  /\ UNCHANGED otherVars

NextAlias == Next \/ CallerWrite

SpecAlias == Init /\ [][NextAlias]_vars

\* ---- drain runs: a set of tasks with distinct ids is inserted into an empty
\* ---- queue in any order and extracted until each insert is matched by one
\* ---- extract_max call; then a second empty queue is driven with the same set
TaskSets ==
  UNION {{{[task_id |-> TaskPool[i].task_id, priority |-> f[i],
            arrival_time |-> TaskPool[i].arrival_time] : i \in I} :
            f \in [I -> Priorities]} : I \in SUBSET (1..NumIds)}

InitDrain ==
  /\ heap = <<>>
  /\ pos = <<>>
  /\ lastOp = NoCall
  /\ \E S \in TaskSets : todo = S /\ inserted = S
  /\ out = <<>>
  /\ out1 = <<>>
  /\ run = 1
  /\ Idle

DrainInsert ==
  /\ todo # {}
  /\ \E task \in todo :
       /\ Call("insert", task, NoId, 0, insert(Q, task))
       /\ todo' = todo \ {task}
  /\ UNCHANGED <<inserted, out, out1, run>>
  /\ UNCHANGED otherVars

DrainExtract ==
  /\ todo = {}
  /\ Len(out) < Cardinality(inserted)
  /\ LET r == extract_max(Q)
     IN /\ Call("extract_max", NoTask, NoId, 0, r)
        /\ out' = Append(out, r.ret)
  /\ UNCHANGED <<todo, inserted, out1, run>>
  /\ UNCHANGED otherVars

SecondQueue ==
  /\ run = 1
  /\ todo = {}
  /\ Len(out) = Cardinality(inserted)
  /\ heap' = EmptyQueue.heap
  /\ pos' = EmptyQueue.pos
  /\ lastOp' = NoCall
  /\ todo' = inserted
  /\ out1' = out
  /\ out' = <<>>
  /\ run' = 2
  /\ UNCHANGED inserted
  /\ UNCHANGED otherVars

NextDrain == DrainInsert \/ DrainExtract \/ SecondQueue

SpecDrain == InitDrain /\ [][NextDrain]_vars

\* ---- simulate_scheduler runs: a task set and a horizon are chosen, the set is
\* ---- passed as a list in any order and simulated; then the same set is passed
\* ---- again, in any order, to a second call
MaxTime == 3

\* the demo of the module's main block
DemoTasks ==
  { [task_id |-> <<65>>, priority |-> 3, arrival_time |-> 0],
    [task_id |-> <<66>>, priority |-> 10, arrival_time |-> 1],
    [task_id |-> <<67>>, priority |-> 5, arrival_time |-> 1],
    [task_id |-> <<68>>, priority |-> 10, arrival_time |-> 2],
    [task_id |-> <<69>>, priority |-> 1, arrival_time |-> 3] }
DemoMaxTime == 6

SimInputs == (TaskSets \X (0..MaxTime)) \cup {<<DemoTasks, DemoMaxTime>>}

\* the lists that hold each task of S once
ListsOf(S) ==
  {f \in [1..Cardinality(S) -> S] : \A i, j \in 1..Cardinality(S) : i # j => f[i] # f[j]}

SimLocals == [pq |-> EmptyQueue, by_time |-> <<>>, t |-> 0, timeline |-> <<>>,
              err |-> NoError]

InitSim ==
  /\ heap = <<>>
  /\ pos = <<>>
  /\ lastOp = NoCall
  /\ todo = {}
  /\ inserted = {}
  /\ out = <<>>
  /\ out1 = <<>>
  /\ run = 0
  /\ cmp = CmpIdle /\ dl = DlIdle /\ hs = HsIdle
  /\ \E in \in SimInputs :
       sim = [pc |-> "call", tasks |-> in[1], max_time |-> in[2], st |-> SimLocals,
              call |-> 1, first |-> <<>>]

SimUnchanged == UNCHANGED <<queueVars, drainVars, cmp, dl, hs>>

\* pq = MaxHeapPriorityQueue(); by_time = ...; timeline = []
SimBucket ==
  /\ sim.pc = "call"
  /\ \E tasks \in ListsOf(sim.tasks) :
       sim' = [sim EXCEPT !.pc = "loop",
                          !.st = [SimLocals EXCEPT !.by_time = bucket_by_time(tasks)]]
  /\ SimUnchanged

\* one iteration of: for t in range(max_time + 1)
SimStep ==
  /\ sim.pc = "loop"
  /\ sim.st.err = NoError
  /\ sim.st.t <= sim.max_time
  /\ sim' = [sim EXCEPT !.st = sim_step(sim.st)]
  /\ SimUnchanged

\* return timeline
SimReturn ==
  /\ sim.pc = "loop"
  /\ sim.st.err = NoError
  /\ sim.st.t > sim.max_time
  /\ sim' = [sim EXCEPT !.pc = "done"]
  /\ SimUnchanged

\* the caller keeps the result and calls simulate_scheduler again
SimSecondCall ==
  /\ sim.pc = "done"
  /\ sim.call = 1
  /\ sim' = [sim EXCEPT !.pc = "call", !.call = 2, !.first = sim.st.timeline,
                        !.st = SimLocals]
  /\ SimUnchanged

NextSim == SimBucket \/ SimStep \/ SimReturn \/ SimSecondCall

SpecSim == InitSim /\ [][NextSim]_vars

\* ---- comparisons: _higher_priority is applied to three tasks, taken from all
\* ---- combinations of the ids, priorities and arrival times of the model
Arrivals == {TaskPool[i].arrival_time : i \in 1..NumIds}
CmpTasks == [task_id : Ids, priority : Priorities, arrival_time : Arrivals]

InitCmp ==
  /\ heap = <<>>
  /\ pos = <<>>
  /\ lastOp = NoCall
  /\ todo = {}
  /\ inserted = {}
  /\ out = <<>>
  /\ out1 = <<>>
  /\ run = 0
  /\ sim = SimIdle /\ dl = DlIdle /\ hs = HsIdle
  /\ cmp = [pc |-> "start"]

Compare ==
  /\ cmp.pc = "start"
  /\ \E a, b, c \in CmpTasks :
       cmp' = [pc |-> "compared", a |-> a, b |-> b, c |-> c,
               aa |-> higher_priority(a, a),
               ab |-> higher_priority(a, b),
               ba |-> higher_priority(b, a),
               bc |-> higher_priority(b, c),
               ac |-> higher_priority(a, c)]
  /\ UNCHANGED <<queueVars, drainVars, sim, dl, hs>>

NextCmp == Compare

SpecCmp == InitCmp /\ [][NextCmp]_vars

\* ---- deadline and payload: two runs in lockstep, the first on tasks with the
\* ---- default deadline (None, held as the empty sequence) and payload, the
\* ---- second on the same tasks with any deadline and payload; a run is either
\* ---- a sequence of queue operations or a call of simulate_scheduler
Extras == {[deadline |-> <<>>, payload |-> ""], [deadline |-> <<3>>, payload |-> "x"]}
DefaultExtra == [deadline |-> <<>>, payload |-> ""]
WithExtra(task, x) ==
  [task_id |-> task.task_id, priority |-> task.priority,
   arrival_time |-> task.arrival_time, deadline |-> x.deadline, payload |-> x.payload]

\* a task without its deadline and payload
Core(t) == [task_id |-> t.task_id, priority |-> t.priority, arrival_time |-> t.arrival_time]

\* agree: every call so far raised the same exception, or none, in both runs
\* and returned the same task up to deadline and payload
DlStart == [pc |-> "ops", qa |-> EmptyQueue, qb |-> EmptyQueue, agree |-> TRUE,
            tasks |-> {}, max_time |-> 0, sa |-> SimLocals, sb |-> SimLocals]

\* the tasks of S as a list in the order of TaskPool
RECURSIVE PoolListFrom(_, _)
PoolListFrom(S, i) ==
  IF i > NumIds THEN <<>>
  ELSE LET here == {x \in S : x.task_id = TaskPool[i].task_id}
       IN (IF here = {} THEN <<>> ELSE <<CHOOSE x \in here : TRUE>>)
            \o PoolListFrom(S, i + 1)

PoolList(S) == PoolListFrom(S, 1)

InitDl ==
  /\ heap = <<>>
  /\ pos = <<>>
  /\ lastOp = NoCall
  /\ todo = {}
  /\ inserted = {}
  /\ out = <<>>
  /\ out1 = <<>>
  /\ run = 0
  /\ sim = SimIdle /\ cmp = CmpIdle /\ hs = HsIdle
  /\ \/ dl = DlStart
     \/ \E S \in TaskSets : dl = [DlStart EXCEPT !.pc = "call", !.tasks = S,
                                                 !.max_time = MaxTime]

DlUnchanged == UNCHANGED <<queueVars, drainVars, sim, cmp, hs>>

DlCall(ra, rb) ==
  dl' = [dl EXCEPT !.qa = ra.q, !.qb = rb.q,
                   !.agree = dl.agree /\ ra.err = rb.err /\ Core(ra.ret) = Core(rb.ret)]

DlInsert ==
  /\ dl.pc = "ops"
  /\ \E task \in Task, x \in Extras :
       DlCall(insert(dl.qa, WithExtra(task, DefaultExtra)),
              insert(dl.qb, WithExtra(task, x)))
  /\ DlUnchanged

DlExtractMax ==
  /\ dl.pc = "ops"
  /\ DlCall(extract_max(dl.qa), extract_max(dl.qb))
  /\ DlUnchanged

DlPeekMax ==
  /\ dl.pc = "ops"
  /\ DlCall(peek_max(dl.qa), peek_max(dl.qb))
  /\ DlUnchanged

DlIncreaseKey ==
  /\ dl.pc = "ops"
  /\ \E id \in Ids, p \in Priorities :
       DlCall(increase_key(dl.qa, id, p), increase_key(dl.qb, id, p))
  /\ DlUnchanged

DlDecreaseKey ==
  /\ dl.pc = "ops"
  /\ \E id \in Ids, p \in Priorities :
       DlCall(decrease_key(dl.qa, id, p), decrease_key(dl.qb, id, p))
  /\ DlUnchanged

\* both calls of simulate_scheduler get the tasks in the same list order
DlSimBucket ==
  /\ dl.pc = "call"
  /\ \E x \in [dl.tasks -> Extras] :
       LET tasks == PoolList(dl.tasks)
           la == [i \in 1..Len(tasks) |-> WithExtra(tasks[i], DefaultExtra)]
           lb == [i \in 1..Len(tasks) |-> WithExtra(tasks[i], x[tasks[i]])]
       IN dl' = [dl EXCEPT !.pc = "loop",
                           !.sa = [SimLocals EXCEPT !.by_time = bucket_by_time(la)],
                           !.sb = [SimLocals EXCEPT !.by_time = bucket_by_time(lb)]]
  /\ DlUnchanged

DlSimStep ==
  /\ dl.pc = "loop"
  /\ dl.sa.t <= dl.max_time
  /\ dl' = [dl EXCEPT !.sa = sim_step(dl.sa), !.sb = sim_step(dl.sb)]
  /\ DlUnchanged

DlSimReturn ==
  /\ dl.pc = "loop"
  /\ dl.sa.t > dl.max_time
  /\ dl' = [dl EXCEPT !.pc = "done"]
  /\ DlUnchanged

NextDl ==
  \/ DlInsert \/ DlExtractMax \/ DlPeekMax \/ DlIncreaseKey \/ DlDecreaseKey
  \/ DlSimBucket \/ DlSimStep \/ DlSimReturn

SpecDl == InitDl /\ [][NextDl]_vars

\* ---- heapsort runs: heapsort is called on a list of integers ----
MaxLen == 5
MaxValue == 2

IntLists == UNION {[1..n -> 0..MaxValue] : n \in 0..MaxLen}

InitSort ==
  /\ heap = <<>>
  /\ pos = <<>>
  /\ lastOp = NoCall
  /\ todo = {}
  /\ inserted = {}
  /\ out = <<>>
  /\ out1 = <<>>
  /\ run = 0
  /\ sim = SimIdle /\ cmp = CmpIdle /\ dl = DlIdle
  /\ \E a \in IntLists :
       hs = [pc |-> "call", input |-> a, a |-> a, arr |-> <<>>, shared |-> FALSE,
             n |-> 0, i |-> 0, end |-> 0, result |-> <<>>]

HsUnchanged == UNCHANGED <<queueVars, drainVars, sim, cmp, dl>>

\* arr = list(a); n = len(arr); if n <= 1: return arr; then _build_max_heap
\* starts at i = n // 2 - 1
HsCall ==
  /\ hs.pc = "call"
  /\ LET n == Len(hs.a)
     IN hs' = IF n <= 1
              THEN [hs EXCEPT !.arr = hs.a, !.shared = list_is_alias, !.n = n,
                              !.result = hs.a, !.pc = "done"]
              ELSE [hs EXCEPT !.arr = hs.a, !.shared = list_is_alias, !.n = n,
                              !.i = (n \div 2) - 1, !.pc = "build"]
  /\ HsUnchanged

\* one iteration of _build_max_heap: _sift_down(a, i, n - 1)
HsBuildStep ==
  /\ hs.pc = "build"
  /\ hs.i >= 0
  /\ hs' = [hs_store(hs, hs_sift_down(hs.arr, hs.i, hs.n - 1)) EXCEPT !.i = hs.i - 1]
  /\ HsUnchanged

\* _build_max_heap returns; the second loop starts at end = n - 1
HsBuilt ==
  /\ hs.pc = "build"
  /\ hs.i < 0
  /\ hs' = [hs EXCEPT !.pc = "sort", !.end = hs.n - 1]
  /\ HsUnchanged

\* one iteration of: arr[0], arr[end] = arr[end], arr[0]; _sift_down(arr, 0, end - 1)
HsSortStep ==
  /\ hs.pc = "sort"
  /\ hs.end >= 1
  /\ LET swapped == [hs.arr EXCEPT ![1] = hs.arr[hs.end + 1], ![hs.end + 1] = hs.arr[1]]
     IN hs' = [hs_store(hs, hs_sift_down(swapped, 0, hs.end - 1)) EXCEPT !.end = hs.end - 1]
  /\ HsUnchanged

\* return arr
HsReturn ==
  /\ hs.pc = "sort"
  /\ hs.end < 1
  /\ hs' = [hs EXCEPT !.result = hs.arr, !.pc = "done"]
  /\ HsUnchanged

NextSort == HsCall \/ HsBuildStep \/ HsBuilt \/ HsSortStep \/ HsReturn

\* the call runs to completion: straight-line code that is never suspended
SpecSort == InitSort /\ [][NextSort]_vars /\ WF_vars(NextSort)

\* ---- helpers of the properties ----
Slots == 0..(Len(heap) - 1)
ParentOf(i) == (i - 1) \div 2
ResidentIds == {heap[i + 1].task_id : i \in Slots}
Succeeded(op) == lastOp.op = op /\ lastOp.err = NoError

\* C1: heap-index consistency: every slot's task id maps back to the slot,
\* every id of the index names a slot holding that id, and the index has
\* exactly size entries.
IndexConsistent ==
  /\ \A i \in Slots : heap[i + 1].task_id \in DOMAIN pos /\ pos[heap[i + 1].task_id] = i
  /\ \A id \in DOMAIN pos : pos[id] \in Slots /\ heap[pos[id] + 1].task_id = id
  /\ Cardinality(DOMAIN pos) = Len(heap)

\* C1 witness: an extraction from a queue of four or more tasks has moved the
\* last task to the root and sifted it down
IndexConsistentWitness ==
  /\ Succeeded("extract_max")
  /\ Len(heap) >= 3
  /\ DOMAIN pos = ResidentIds

\* C2: max-heap order: no child is strictly higher-priority than its parent.
HeapOrder ==
  \A i \in Slots : i >= 1 => ~higher_priority(heap[i + 1], heap[ParentOf(i) + 1])

\* C2 witness: decrease_key on the root has sifted the task down two levels
HeapOrderWitness ==
  /\ Succeeded("decrease_key")
  /\ lastOp.slot = 0
  /\ pos[lastOp.key] >= 3

\* the order of the specification: higher priority, then earlier arrival_time,
\* then smaller task_id
Precedes(a, b) ==
  \/ a.priority > b.priority
  \/ a.priority = b.priority /\ a.arrival_time < b.arrival_time
  \/ a.priority = b.priority /\ a.arrival_time = b.arrival_time
       /\ StrLess(a.task_id, b.task_id)

RECURSIVE SortedDescending(_)
SortedDescending(S) ==
  IF S = {} THEN <<>>
  ELSE LET m == CHOOSE x \in S : \A y \in S \ {x} : Precedes(x, y)
       IN <<m>> \o SortedDescending(S \ {m})

Drained == todo = {} /\ Len(out) = Cardinality(inserted)

\* C3: extraction order / round trip: once every inserted task has been matched
\* by an extract_max call, the results are the inserted set sorted descending
\* under the priority order (each task exactly once), and no result is
\* higher-priority than the one returned before it.
ExtractionOrder ==
  Drained =>
    /\ out = SortedDescending(inserted)
    /\ \A i \in 1..(Len(out) - 1) : ~higher_priority(out[i + 1], out[i])

\* C3 witness: four tasks, two of them tied on priority, have been drained
ExtractionOrderWitness ==
  /\ Drained
  /\ Len(out) >= 4
  /\ \E i, j \in 1..Len(out) : i # j /\ out[i].priority = out[j].priority
  /\ \E i, j \in 1..Len(out) : out[i].priority # out[j].priority

\* C4: size conservation: a successful insert grows the size by one, a
\* successful extract_max shrinks it by one, is_empty agrees with size 0, and
\* n inserts of distinct ids followed by n extract_max calls leave the queue
\* empty with no extraction failing.
SizeStep ==
  /\ (lastOp'.op = "insert" /\ lastOp'.err = NoError) => Len(heap') = Len(heap) + 1
  /\ (lastOp'.op = "extract_max" /\ lastOp'.err = NoError) => Len(heap') = Len(heap) - 1

\* C4: size conservation holds on every step and at the end of every drain.
SizeConservation ==
  /\ [][SizeStep]_vars
  /\ [](is_empty(Q) <=> len(Q) = 0)
  /\ [](Drained => /\ len(Q) = 0
                   /\ is_empty(Q)
                   /\ \A i \in 1..Len(out) : out[i] # NoTask)

\* C4 witness: four inserts and four extractions have emptied the queue
SizeConservationWitness ==
  /\ Drained
  /\ Cardinality(inserted) >= 4
  /\ Succeeded("extract_max")
  /\ heap = <<>>

\* C5: deterministic tie-breaking: equal priorities come out by earlier
\* arrival_time and then smaller task_id, and the second queue, fed the same set
\* in any other order, returns the same sequence as the first.
DeterministicTieBreak ==
  /\ \A i \in 1..(Len(out) - 1) :
       (out[i] # NoTask /\ out[i + 1] # NoTask /\ out[i].priority = out[i + 1].priority) =>
         \/ out[i].arrival_time < out[i + 1].arrival_time
         \/ /\ out[i].arrival_time = out[i + 1].arrival_time
            /\ StrLess(out[i].task_id, out[i + 1].task_id)
  /\ (run = 2 /\ Drained) => out = out1

\* C5 witness: the second queue has been drained of a set holding two tasks
\* equal in priority and arrival_time
DeterministicTieBreakWitness ==
  /\ run = 2
  /\ Drained
  /\ Len(out) >= 3
  /\ \E i \in 1..(Len(out) - 1) :
       /\ out[i].priority = out[i + 1].priority
       /\ out[i].arrival_time = out[i + 1].arrival_time

\* C6: insert raises DuplicateKey exactly when the task's id is resident, the
\* failure changes neither the heap store (hence neither the size nor the
\* resident task's fields) nor the index, and otherwise insert succeeds and the
\* task becomes resident.
InsertDuplicateStep ==
  lastOp'.op = "insert" =>
    LET t == lastOp'.task
        resident == t.task_id \in ResidentIds
    IN /\ lastOp'.err = DuplicateKey <=> resident
       /\ resident => (heap' = heap /\ pos' = pos)
       /\ ~resident => /\ lastOp'.err = NoError
                       /\ \E i \in 1..Len(heap') : heap'[i] = t

\* C6: every insert call raises DuplicateKey exactly for a resident id and
\* then changes nothing.
InsertDuplicate == [][InsertDuplicateStep]_vars

\* C6 witness: a duplicate insert that carried a different priority than the
\* resident task was rejected
InsertDuplicateWitness ==
  /\ lastOp.op = "insert"
  /\ lastOp.err = DuplicateKey
  /\ Len(heap) >= 2
  /\ \E i \in 1..Len(heap) :
       heap[i].task_id = lastOp.task.task_id /\ heap[i].priority # lastOp.task.priority

\* C7: increase_key / decrease_key raise NotFound for an id that is not
\* resident, otherwise InvalidArgument exactly when the new priority is below /
\* above the current one (an equal priority is accepted), and every failure
\* leaves heap store, index and priorities unchanged.
KeyErrorsStep ==
  lastOp'.op \in {"increase_key", "decrease_key"} =>
    LET id == lastOp'.key
        p == lastOp'.newp
        resident == id \in ResidentIds
        cur == (CHOOSE i \in 1..Len(heap) : heap[i].task_id = id)
    IN /\ ~resident => lastOp'.err = NotFound
       /\ resident =>
            /\ lastOp'.op = "increase_key" =>
                 (lastOp'.err = InvalidArgument <=> p < heap[cur].priority)
            /\ lastOp'.op = "decrease_key" =>
                 (lastOp'.err = InvalidArgument <=> p > heap[cur].priority)
            /\ lastOp'.err \in {InvalidArgument, NoError}
       /\ lastOp'.err # NoError => (heap' = heap /\ pos' = pos)

\* C7: every increase_key / decrease_key call fails exactly as specified and
\* a failure changes nothing.
KeyErrors == [][KeyErrorsStep]_vars

\* C7 witness: increase_key with the current priority was accepted on a
\* non-root task
KeyErrorsWitness ==
  /\ Succeeded("increase_key")
  /\ lastOp.slot >= 1
  /\ pos[lastOp.key] = lastOp.slot
  /\ heap[lastOp.slot + 1].priority = lastOp.newp
  /\ lastOp.newp < MaxPriority

\* C8: extract_max and peek_max raise EmptyQueue exactly when the queue holds
\* no task; the failure leaves heap store and index empty, and an insert that
\* follows it succeeds.
EmptyQueueStep ==
  /\ lastOp'.op \in {"extract_max", "peek_max"} =>
       /\ lastOp'.err = EmptyQueueError <=> Len(heap) = 0
       /\ lastOp'.err = EmptyQueueError =>
            /\ heap' = <<>> /\ DOMAIN pos' = {}
            /\ heap' = heap /\ pos' = pos
  /\ (lastOp.err = EmptyQueueError /\ lastOp'.op = "insert") =>
       /\ lastOp'.err = NoError
       /\ heap' = <<lastOp'.task>>
       /\ DOMAIN pos' = {lastOp'.task.task_id}
       /\ pos'[lastOp'.task.task_id] = 0

\* C8: every extract_max / peek_max call raises EmptyQueue exactly on the
\* empty queue and leaves it empty and usable.
EmptyQueueFailure == [][EmptyQueueStep]_vars

\* C8 witness: extract_max failed on an empty queue
EmptyQueueFailureWitness ==
  /\ lastOp.op = "extract_max"
  /\ lastOp.err = EmptyQueueError
  /\ heap = <<>>

\* C9: peek_max on a non-empty queue returns a resident task that no resident
\* task is higher-priority than, changes neither heap store nor index, and an
\* extract_max called right after it returns the same task.
PeekStep ==
  /\ (lastOp'.op = "peek_max" /\ Len(heap) > 0) =>
       /\ lastOp'.err = NoError
       /\ \E i \in 1..Len(heap) : heap[i] = lastOp'.ret
       /\ \A i \in 1..Len(heap) : ~higher_priority(heap[i], lastOp'.ret)
       /\ heap' = heap /\ pos' = pos
  /\ (Succeeded("peek_max") /\ lastOp'.op = "extract_max") =>
       /\ lastOp'.err = NoError
       /\ lastOp'.ret = lastOp.ret

\* C9: every peek_max call returns the maximum without mutation and agrees
\* with the extract_max that follows.
PeekMaximum == [][PeekStep]_vars

\* C9 witness: peek_max has returned the maximum of a queue of three or more
\* tasks that are all tied on priority
PeekMaximumWitness ==
  /\ Succeeded("peek_max")
  /\ Len(heap) >= 3
  /\ \A i \in 1..Len(heap) :
       /\ heap[i].priority = lastOp.ret.priority
       /\ heap[i] # lastOp.ret => higher_priority(lastOp.ret, heap[i])

\* C10: key-mutation monotonicity: after a successful increase_key the task's
\* slot is its old slot or an ancestor of it; after a successful decrease_key
\* its slot is its old slot or a descendant of it.
RECURSIVE AncestorOrSelf(_, _)
AncestorOrSelf(a, b) ==
  IF a = b THEN TRUE
  ELSE IF b <= 0 THEN FALSE
  ELSE AncestorOrSelf(a, ParentOf(b))

SlotIn(h, id) == CHOOSE i \in 0..(Len(h) - 1) : h[i + 1].task_id = id

KeyMonotoneStep ==
  /\ (lastOp'.op = "increase_key" /\ lastOp'.err = NoError) =>
       AncestorOrSelf(SlotIn(heap', lastOp'.key), SlotIn(heap, lastOp'.key))
  /\ (lastOp'.op = "decrease_key" /\ lastOp'.err = NoError) =>
       AncestorOrSelf(SlotIn(heap, lastOp'.key), SlotIn(heap', lastOp'.key))

\* C10: every successful increase_key moves its task rootward or not at all,
\* every successful decrease_key leafward or not at all.
KeyMonotone == [][KeyMonotoneStep]_vars

\* C10 witness: increase_key has lifted a task from slot 3 to the root
KeyMonotoneWitness ==
  /\ Succeeded("increase_key")
  /\ lastOp.slot = 3
  /\ heap[1].task_id = lastOp.key

\* ---- properties of simulate_scheduler ----
Timeline == sim.st.timeline
TimeAt(i) == Timeline[i][1]
TaskAt(i) == Timeline[i][2]
SimDone == sim.pc = "done"

\* C11: the timeline has at most one entry per time step, its times increase
\* strictly and lie in 0..max_time, no task is executed before its
\* arrival_time (so none arriving after max_time appears), every entry is a task
\* of the input and no task appears twice.
TimelineShape ==
  sim.pc \in {"loop", "done"} =>
    /\ \A i \in 1..Len(Timeline) :
         /\ TimeAt(i) \in 0..sim.max_time
         /\ TaskAt(i) \in sim.tasks
         /\ TaskAt(i).arrival_time <= TimeAt(i)
         /\ TaskAt(i).arrival_time <= sim.max_time
    /\ \A i, j \in 1..Len(Timeline) :
         i < j => (TimeAt(i) < TimeAt(j) /\ TaskAt(i).task_id # TaskAt(j).task_id)

\* C11 witness: a finished run executed three tasks or more and left at least
\* one task of the input unexecuted
TimelineShapeWitness ==
  /\ SimDone
  /\ Len(Timeline) >= 3
  /\ Len(Timeline) < Cardinality(sim.tasks)

\* tasks executed at steps before t, and tasks that have arrived by t and were
\* not executed before it
ExecutedBefore(t) == {TaskAt(i) : i \in {j \in 1..Len(Timeline) : TimeAt(j) < t}}
Eligible(t) == {x \in sim.tasks : x.arrival_time <= t} \ ExecutedBefore(t)
EntriesAt(t) == {i \in 1..Len(Timeline) : TimeAt(i) = t}

\* C12: at every completed step t, if some task has arrived and is not yet
\* executed then exactly one entry (t, x) is recorded and x is the maximum of
\* those tasks in the priority order; otherwise nothing is recorded for t.
ExecutesMaximum ==
  sim.pc \in {"loop", "done"} =>
    \A t \in 0..(sim.st.t - 1) :
      IF Eligible(t) # {}
      THEN /\ Cardinality(EntriesAt(t)) = 1
           /\ \A i \in EntriesAt(t) :
                /\ TaskAt(i) \in Eligible(t)
                /\ \A y \in Eligible(t) \ {TaskAt(i)} : Precedes(TaskAt(i), y)
      ELSE EntriesAt(t) = {}

\* C12 witness: in a finished run a task left over from an earlier step was
\* executed at a step at which another task arrived
ExecutesMaximumWitness ==
  /\ SimDone
  /\ \E i \in 1..Len(Timeline) :
       /\ TaskAt(i).arrival_time < TimeAt(i)
       /\ \E x \in sim.tasks : x.arrival_time = TimeAt(i)

DemoTask(id) == CHOOSE x \in DemoTasks : x.task_id = id
DemoRun == sim.pc # "idle" /\ sim.tasks = DemoTasks /\ sim.max_time = DemoMaxTime

\* C13: the demo tasks A..E with max_time 6 yield exactly the timeline
\* (0,A), (1,B), (2,D), (3,C), (4,E).
DemoTimeline ==
  (DemoRun /\ SimDone) =>
    Timeline = << <<0, DemoTask(<<65>>)>>, <<1, DemoTask(<<66>>)>>,
                  <<2, DemoTask(<<68>>)>>, <<3, DemoTask(<<67>>)>>,
                  <<4, DemoTask(<<69>>)>> >>

\* C13 witness: the demo run has returned
DemoTimelineWitness == DemoRun /\ SimDone /\ sim.st.t = DemoMaxTime + 1

\* C14: the second call, given the same tasks in any other order, returns the
\* timeline the first call returned.
OrderIndependent == (SimDone /\ sim.call = 2) => Timeline = sim.first

\* C14 witness: the second call has returned for an input in which two tasks
\* share arrival_time and priority
OrderIndependentWitness ==
  /\ SimDone
  /\ sim.call = 2
  /\ Len(Timeline) >= 3
  /\ \E x, y \in sim.tasks :
       x # y /\ x.arrival_time = y.arrival_time /\ x.priority = y.priority

\* C15: _higher_priority is a strict total order on tasks with distinct ids: it
\* is irreflexive, transitive, and of two tasks with different ids exactly one
\* is higher-priority than the other.
StrictTotalOrder ==
  cmp.pc = "compared" =>
    /\ ~cmp.aa
    /\ (cmp.ab /\ cmp.bc) => cmp.ac
    /\ cmp.a.task_id # cmp.b.task_id => (cmp.ab <=> ~cmp.ba)

\* C15 witness: a chain a, b, c of tasks tied on priority and arrival_time was
\* ordered by task_id alone
StrictTotalOrderWitness ==
  /\ cmp.pc = "compared"
  /\ cmp.ab /\ cmp.bc /\ cmp.ac /\ ~cmp.ba
  /\ cmp.a.priority = cmp.b.priority /\ cmp.b.priority = cmp.c.priority
  /\ cmp.a.arrival_time = cmp.b.arrival_time /\ cmp.b.arrival_time = cmp.c.arrival_time

Layout(q) == [i \in 1..Len(q.heap) |-> Core(q.heap[i])]
CoreTimeline(tl) == [i \in 1..Len(tl) |-> <<tl[i][1], Core(tl[i][2])>>]

\* C16: deadline and payload never affect ordering: the two runs have the same
\* heap layout and index, every call fails or succeeds alike and returns the
\* same task, and the two simulate_scheduler calls build the same timeline.
DeadlineIrrelevant ==
  dl.pc # "idle" =>
    /\ Layout(dl.qa) = Layout(dl.qb)
    /\ dl.qa.pos = dl.qb.pos
    /\ dl.agree
    /\ Layout(dl.sa.pq) = Layout(dl.sb.pq)
    /\ dl.sa.t = dl.sb.t
    /\ CoreTimeline(dl.sa.timeline) = CoreTimeline(dl.sb.timeline)

\* C16 witness: in the second run the root has no deadline and a task tied
\* with it on priority and arrival_time, lower in a heap of three tasks or
\* more, has one
DeadlineIrrelevantWitness ==
  /\ dl.pc = "ops"
  /\ Len(dl.qb.heap) >= 3
  /\ dl.qb.heap[1].deadline = <<>>
  /\ \E i \in 2..Len(dl.qb.heap) :
       /\ dl.qb.heap[i].priority = dl.qb.heap[1].priority
       /\ dl.qb.heap[i].arrival_time = dl.qb.heap[1].arrival_time
       /\ dl.qb.heap[i].deadline = <<3>>

PriorityIn(h, id) == h[SlotIn(h, id) + 1].priority

\* C17: the priority of a task that stays resident changes only in a step of
\* increase_key or decrease_key, so the max-heap order always holds.
ResidentPriorityStep ==
  \A id \in ResidentIds :
    (id \in {heap'[i].task_id : i \in 1..Len(heap')}
       /\ PriorityIn(heap', id) # PriorityIn(heap, id))
      => lastOp'.op \in {"increase_key", "decrease_key"}

PriorityOnlyByKeyOps == [][ResidentPriorityStep]_vars /\ []HeapOrder

\* C18: residency lifecycle: the index gains exactly the id of a successful
\* insert and loses exactly the id of the task a successful extract_max
\* returns, and no other step changes it; right after extract_max returned id
\* x, increase_key / decrease_key of x raise NotFound and insert of x succeeds.
ResidencyStep ==
  LET ok == lastOp'.err = NoError
      x == lastOp.ret.task_id
  IN /\ DOMAIN pos' =
          IF lastOp'.op = "insert" /\ ok THEN (DOMAIN pos) \cup {lastOp'.task.task_id}
          ELSE IF lastOp'.op = "extract_max" /\ ok
               THEN (DOMAIN pos) \ {lastOp'.ret.task_id}
          ELSE DOMAIN pos
     /\ (lastOp'.op = "insert" /\ ok) => lastOp'.task.task_id \notin DOMAIN pos
     /\ (lastOp'.op = "extract_max" /\ ok) => lastOp'.ret.task_id \in DOMAIN pos
     /\ Succeeded("extract_max") =>
          /\ (lastOp'.op \in {"increase_key", "decrease_key"} /\ lastOp'.key = x)
               => lastOp'.err = NotFound
          /\ (lastOp'.op = "insert" /\ lastOp'.task.task_id = x) => ok

ResidencyLifecycle == [][ResidencyStep]_vars

\* C18 witness: extract_max has returned a task and left two or more resident
ResidencyLifecycleWitness ==
  /\ Succeeded("extract_max")
  /\ Len(heap) >= 2
  /\ lastOp.ret.task_id \notin DOMAIN pos
  /\ DOMAIN pos = ResidentIds

ChangedSlots == {i \in Slots : i >= Len(heap') \/ heap'[i + 1] # heap[i + 1]}

\* C19: frame of key mutation: a successful increase_key / decrease_key sets the
\* priority of its task to p, keeps the resident ids and the size, leaves every
\* other task as it was, changes slots (and index entries) along one
\* root-to-leaf path only, and changes nothing at all when p is the current
\* priority.
KeyFrameStep ==
  (lastOp'.op \in {"increase_key", "decrease_key"} /\ lastOp'.err = NoError) =>
    LET id == lastOp'.key
        p == lastOp'.newp
    IN /\ Len(heap') = Len(heap)
       /\ {heap'[i].task_id : i \in 1..Len(heap')} = ResidentIds
       /\ DOMAIN pos' = DOMAIN pos
       /\ PriorityIn(heap', id) = p
       /\ \A o \in ResidentIds \ {id} :
            heap'[SlotIn(heap', o) + 1] = heap[SlotIn(heap, o) + 1]
       /\ \A i, j \in ChangedSlots : AncestorOrSelf(i, j) \/ AncestorOrSelf(j, i)
       /\ \A o \in DOMAIN pos :
            pos'[o] # pos[o] => (pos[o] \in ChangedSlots /\ pos'[o] \in ChangedSlots)
       /\ p = PriorityIn(heap, id) => (heap' = heap /\ pos' = pos)

KeyFrame == [][KeyFrameStep]_vars

\* C19 witness: increase_key has raised a task's priority and moved it from a
\* lower slot to the root of a heap of three or more
KeyFrameWitness ==
  /\ Succeeded("increase_key")
  /\ Len(heap) >= 3
  /\ lastOp.slot >= 1
  /\ pos[lastOp.key] = 0
  /\ heap[1].priority = lastOp.newp

\* the reference sort: sorted(arr), by insertion
RECURSIVE InsertAscending(_, _)
InsertAscending(x, s) ==
  IF s = <<>> THEN <<x>>
  ELSE IF x <= Head(s) THEN <<x>> \o s
  ELSE <<Head(s)>> \o InsertAscending(x, Tail(s))

RECURSIVE SortedAscending(_)
SortedAscending(s) ==
  IF s = <<>> THEN <<>> ELSE InsertAscending(Head(s), SortedAscending(Tail(s)))

Occurrences(s, v) == Cardinality({i \in 1..Len(s) : s[i] = v})

HsDone == hs.pc = "done"

HeapsortResult ==
  HsDone =>
    /\ hs.result = SortedAscending(hs.input)
    /\ \A i \in 1..(Len(hs.result) - 1) : hs.result[i] <= hs.result[i + 1]
    /\ Len(hs.result) = Len(hs.input)
    /\ \A v \in 0..MaxValue : Occurrences(hs.result, v) = Occurrences(hs.input, v)
    /\ hs.a = hs.input

\* C20: heapsort terminates on every list of integers and returns a list that
\* is a permutation of the argument in ascending order, equal to the reference
\* sort; the argument list is left unchanged.
HeapsortCorrect == []HeapsortResult /\ <>HsDone

\* C20 witness: a list of five integers with a duplicate, not already in
\* order, has been sorted
HeapsortCorrectWitness ==
  /\ HsDone
  /\ Len(hs.input) >= 5
  /\ hs.result # hs.input
  /\ \E i, j \in 1..Len(hs.input) : i # j /\ hs.input[i] = hs.input[j]

====
